---- MODULE Spec2Model ----
(***************************************************************************)
(* A model of Reductionist (src/reductionist.py): the authoring-time       *)
(* indexer that parses an Expressionist grammar, validates it, counts its  *)
(* generable variants, marks the semantically meaningful rules and         *)
(* symbols, enumerates the meaningful grammar paths, stores them in a trie *)
(* and clusters them into expressible meanings.                            *)
(*                                                                         *)
(* Objects are modelled by handles: symbols[h] is the NonterminalSymbol    *)
(* created h-th, rules[h] the ProductionRule created h-th.  The lists      *)
(* Grammar.nonterminal_symbols and Grammar.production_rules are sequences  *)
(* of handles.  A grounded rule body is a sequence whose elements are 0    *)
(* (a unicode terminal string) or a symbol handle.  None is "None" for the *)
(* semantically_meaningful flags and -1 for the variant counts.  A path    *)
(* string is a sequence of one-character strings.  Tag lists are kept      *)
(* duplicate-free by the code and are modelled as sets.                    *)
(***************************************************************************)
EXTENDS Integers, Sequences, FiniteSets, TLC

\* ------------------------------------------------------------------ bounds
MaxSymbols == 2
MaxRules == 2
MaxBody == 1
MaxTagsPerSymbol == 1
MaxTokens == 4
RecursionLimit == 10

SymbolNames == <<"A", "B", "C", "D", "E">>
Tags == {"m:a", "m:b"}
AppRates == {2}
Verbosities == {0, 1, 2}

None == "None"
NoCount == -1

VARIABLES
    declared,               \* the symbol names in the order the grammar file declares them
    content,                \* grammar_dictionary['nonterminals'], in iteration order
    verbosity,              \* Reductionist.verbosity
    pc,                     \* position in Reductionist.__init__
    ran,                    \* the stages of Reductionist.__init__ executed so far
    symbols,                \* NonterminalSymbol objects, by handle
    rules,                  \* ProductionRule objects, by handle
    nonterminal_symbols,    \* Grammar.nonterminal_symbols
    production_rules,       \* Grammar.production_rules
    start_symbol,           \* Grammar.start_symbol (0 is None)
    validator,              \* the Validator object
    total_generable_outputs,\* Reductionist.total_generable_outputs
    idx,                    \* loop position inside _build_trie
    paths,                  \* all_semantically_meaningful_paths
    trie,                   \* Reductionist.trie: (path string, key) pairs in iteration order
    expressible_meanings,   \* Reductionist.expressible_meanings
    written                 \* the output files written so far

vars == <<declared, content, verbosity, pc, ran, symbols, rules, nonterminal_symbols,
          production_rules, start_symbol, validator, total_generable_outputs,
          idx, paths, trie, expressible_meanings, written>>

\* ------------------------------------------------------------------ inputs
Lit == [ref |-> FALSE, name |-> "t"]
Ref(nm) == [ref |-> TRUE, name |-> nm]

Tokens(n) == {Lit} \cup {Ref(SymbolNames[i]) : i \in 1..n}

Bodies(n, lo, hi) == UNION {[1..l -> Tokens(n)] : l \in lo..hi}

RuleSpecs(n, lo, hi) == [expansion : Bodies(n, lo, hi), app_rate : AppRates]

RuleLists(n, lo, hi) == UNION {[1..k -> RuleSpecs(n, lo, hi)] : k \in 0..MaxRules}

Markups == {T \in SUBSET Tags : Cardinality(T) <= MaxTagsPerSymbol}

SymbolSpecs(n, i, lo, hi, markups) ==
    [name : {SymbolNames[i]}, deep : BOOLEAN, markup : markups, rules : RuleLists(n, lo, hi)]

RECURSIVE ContentsUpTo(_, _, _, _, _)
ContentsUpTo(n, i, lo, hi, markups) ==
    IF i = 0 THEN {<<>>}
    ELSE {Append(c, s) : c \in ContentsUpTo(n, i - 1, lo, hi, markups),
                         s \in SymbolSpecs(n, i, lo, hi, markups)}

\* every grammar of at most MaxSymbols symbols, MaxRules rules per symbol and
\* one to MaxBody tokens per rule body
Contents == UNION {ContentsUpTo(n, n, 1, MaxBody, Markups) : n \in 1..MaxSymbols}

\* ------------------------------------------------------------------ helpers
Range(f) == {f[i] : i \in DOMAIN f}

RECURSIVE Flatten(_)
Flatten(ss) == IF ss = <<>> THEN <<>> ELSE Head(ss) \o Flatten(Tail(ss))

Min(S) == CHOOSE x \in S : \A y \in S : x <= y
Max(S) == CHOOSE x \in S : \A y \in S : x >= y

SeqMap(Op(_), s) == [i \in 1..Len(s) |-> Op(s[i])]

\* the orders in which the members of a set can be enumerated
Orders(S) == {f \in [1..Cardinality(S) -> S] : \A i, j \in DOMAIN f : f[i] = f[j] => i = j}

\* json.loads builds a plain dict and iteritems() enumerates it in hash order: the
\* order in which the file declares the symbols is any order of the same names
Declarations(c) == Orders({c[i].name : i \in DOMAIN c})

EmptyValidator ==
    [errors |-> 0, warnings |-> 0, descendants_of_symbol |-> <<>>,
     symbol_associated_with_cycle |-> 0, rule_associated_with_cycle |-> 0]

Init ==
    /\ content \in Contents
    /\ declared \in Declarations(content)
    /\ verbosity \in Verbosities
    /\ pc = "grammar"
    /\ ran = {}
    /\ symbols = <<>>
    /\ rules = <<>>
    /\ nonterminal_symbols = <<>>
    /\ production_rules = <<>>
    /\ start_symbol = 0
    /\ validator = EmptyValidator
    /\ total_generable_outputs = NoCount
    /\ idx = 0
    /\ paths = {}
    /\ trie = <<>>
    /\ expressible_meanings = <<>>
    /\ written = {}

\* ------------------------------------------------------------------ Grammar.__init__
\* NonterminalSymbol.__init__ / _init_reify_production_rules: the handles of
\* the rules reified for the i-th parsed symbol
RuleOffset(i) ==
    LET RECURSIVE Off(_)
        Off(k) == IF k = 0 THEN 0 ELSE Off(k - 1) + Len(content[k].rules)
    IN Off(i - 1)

ReifiedRules(i) == [k \in 1..Len(content[i].rules) |-> RuleOffset(i) + k]

\* mutant of ResolveName: an undeclared name resolves to the first symbol
ResolveNameOrFirst(nm) ==
    LET hits == {h \in 1..Len(content) : content[h].name = nm}
    IN IF hits = {} THEN 1 ELSE Min(hits)

\* Grammar._init_ground_symbol_references_in_a_rule_body: next(symbol for symbol in
\* self.nonterminal_symbols if symbol.name == symbol_name); 0 stands for StopIteration
ResolveName(nm) ==
    LET hits == {h \in 1..Len(content) : content[h].name = nm}
    IN IF hits = {} THEN 0 ELSE Min(hits)

GroundBody(spec) ==
    [j \in 1..Len(spec) |-> IF spec[j].ref THEN ResolveName(spec[j].name) ELSE 0]

GroundingFails ==
    \E i \in 1..Len(content) : \E k \in 1..Len(content[i].rules) :
        \E j \in 1..Len(content[i].rules[k].expansion) :
            /\ content[i].rules[k].expansion[j].ref
            /\ ResolveName(content[i].rules[k].expansion[j].name) = 0

\* production_rule.body is assigned inside the loop over the body specification: a
\* rule with an empty specification keeps body = None, and the loop over rule.body
\* that follows the grounding raises TypeError
BodyLeftUnset ==
    \E i \in 1..Len(content) : \E k \in 1..Len(content[i].rules) :
        content[i].rules[k].expansion = <<>>

\* ProductionRule.compile_tags, over a grounded body and the symbol objects syms
CompileTags(body, syms) ==
    UNION {syms[body[j]].tags : j \in {j \in 1..Len(body) : body[j] # 0}}

ParsedSymbol(i) ==
    [name |-> content[i].name,
     id |-> i - 1,
     expansions_are_complete_outputs |-> content[i].deep,
     start_symbol |-> FALSE,
     production_rules |-> ReifiedRules(i),
     tags |-> content[i].markup,
     total_generable_variants |-> NoCount,
     semantically_meaningful |-> None]

ParsedRule(i, k, syms) ==
    LET body == GroundBody(content[i].rules[k].expansion)
    IN [id |-> RuleOffset(i) + k - 1,
        head |-> i,
        body_specification |-> content[i].rules[k].expansion,
        body |-> body,
        application_frequency |-> content[i].rules[k].app_rate,
        tags |-> CompileTags(body, syms),
        total_generable_variants |-> NoCount,
        semantically_meaningful |-> None]

GrammarInit ==
    /\ pc = "grammar"
    /\ ran' = ran \cup {"grammar"}
    /\ IF GroundingFails \/ BodyLeftUnset
       THEN /\ pc' = "crashed"
            /\ UNCHANGED <<symbols, rules, nonterminal_symbols, production_rules>>
       ELSE LET syms == [i \in 1..Len(content) |-> ParsedSymbol(i)]
                rls == Flatten([i \in 1..Len(content) |->
                          [k \in 1..Len(content[i].rules) |-> ParsedRule(i, k, syms)]])
            IN /\ symbols' = syms
               /\ rules' = rls
               /\ nonterminal_symbols' = [i \in 1..Len(content) |-> i]
               /\ production_rules' = Flatten([i \in 1..Len(content) |-> ReifiedRules(i)])
               /\ pc' = "create_start"
    /\ UNCHANGED <<declared, content, verbosity, start_symbol, validator, total_generable_outputs,
                   idx, paths, trie, expressible_meanings, written>>

\* ------------------------------------------------------------------ start symbol
\* Grammar.create_start_symbol_and_top_level_production_rules; max() of an empty
\* list raises ValueError
CreateStartSymbol ==
    /\ pc = "create_start"
    /\ ran' = ran \cup {"create_start"}
    /\ IF nonterminal_symbols = <<>> \/ production_rules = <<>>
       THEN /\ pc' = "crashed"
            /\ UNCHANGED <<symbols, rules, nonterminal_symbols, production_rules, start_symbol>>
       ELSE LET sh == Len(symbols) + 1
                next_available_symbol_id ==
                    Max({symbols[h].id : h \in Range(nonterminal_symbols)}) + 1
                next_available_rule_id ==
                    Max({rules[h].id : h \in Range(production_rules)}) + 1
                de_facto == SelectSeq(nonterminal_symbols,
                                LAMBDA h : symbols[h].expansions_are_complete_outputs)
                top == [k \in 1..Len(de_facto) |->
                          [id |-> next_available_rule_id + k - 1,
                           head |-> sh,
                           body_specification |-> <<Ref(symbols[de_facto[k]].name)>>,
                           body |-> <<de_facto[k]>>,
                           application_frequency |-> 1,
                           tags |-> CompileTags(<<de_facto[k]>>, symbols),
                           total_generable_variants |-> NoCount,
                           semantically_meaningful |-> None]]
                tophandles == [k \in 1..Len(de_facto) |-> Len(rules) + k]
                start == [name |-> "START",
                          id |-> next_available_symbol_id,
                          expansions_are_complete_outputs |-> TRUE,
                          start_symbol |-> TRUE,
                          production_rules |-> tophandles,
                          tags |-> {},
                          total_generable_variants |-> NoCount,
                          semantically_meaningful |-> None]
            IN /\ symbols' = Append(symbols, start)
               /\ rules' = rules \o top
               /\ start_symbol' = sh
               /\ nonterminal_symbols' = Append(nonterminal_symbols, sh)
               /\ production_rules' = production_rules \o tophandles
               /\ pc' = "sort"
    /\ UNCHANGED <<declared, content, verbosity, validator, total_generable_outputs,
                   idx, paths, trie, expressible_meanings, written>>

\* list.sort(key=lambda x: x.id): a stable sort of a list of handles by the id of
\* the object each names
RECURSIVE SortById(_, _)
SortById(hs, objs) ==
    IF hs = <<>> THEN <<>>
    ELSE LET m == Min({objs[hs[i]].id : i \in 1..Len(hs)})
             p == Min({i \in 1..Len(hs) : objs[hs[i]].id = m})
             rest == [i \in 1..(Len(hs) - 1) |-> IF i < p THEN hs[i] ELSE hs[i + 1]]
         IN <<hs[p]>> \o SortById(rest, objs)

SortLists ==
    /\ pc = "sort"
    /\ ran' = ran \cup {"sort"}
    /\ nonterminal_symbols' = SortById(nonterminal_symbols, symbols)
    /\ production_rules' = SortById(production_rules, rules)
    /\ pc' = "validate"
    /\ UNCHANGED <<declared, content, verbosity, symbols, rules, start_symbol, validator,
                   total_generable_outputs, idx, paths, trie, expressible_meanings, written>>


\* ------------------------------------------------------------------ Validator
\* A traversal state v is [memo, csym, crule, err]: descendants_of_symbol,
\* symbol_associated_with_cycle, rule_associated_with_cycle, and whether
\* RuntimeError (maximum recursion depth exceeded) is propagating.  A memo entry
\* is <<>> for None and <<S>> for the set S.  Each call returns [v, ret].
Truthy(m) == m # <<>> /\ m[1] # {}

RECURSIVE CollectDescendantsOfSymbol(_, _, _, _)
RECURSIVE SymbolRulesLoop(_, _, _, _, _, _)
RECURSIVE CollectDescendantsOfRule(_, _, _, _, _, _)

\* Validator._collect_descendants_of_a_nonterminal_symbol
CollectDescendantsOfSymbol(s, target, depth, v) ==
    IF depth > RecursionLimit THEN [v |-> [v EXCEPT !.err = TRUE], ret |-> {}]
    ELSE IF Truthy(v.memo[s]) THEN [v |-> v, ret |-> v.memo[s][1]]
    ELSE LET r == SymbolRulesLoop(s, 1, target, depth, v, {})
         IN IF r.v.err THEN r
            ELSE [v |-> [r.v EXCEPT !.memo[s] = <<r.ret>>], ret |-> r.ret]

\* the loop "for production_rule in nonterminal_symbol.production_rules"
SymbolRulesLoop(s, i, target, depth, v, acc) ==
    IF v.err \/ i > Len(symbols[s].production_rules) THEN [v |-> v, ret |-> acc]
    ELSE LET r == CollectDescendantsOfRule(symbols[s].production_rules[i], 1,
                                           target, depth + 1, v, {})
         IN SymbolRulesLoop(s, i + 1, target, depth, r.v, acc \cup r.ret)

\* Validator._collect_descendants_of_a_production_rule, from body position j
CollectDescendantsOfRule(p, j, target, depth, v, acc) ==
    IF depth > RecursionLimit THEN [v |-> [v EXCEPT !.err = TRUE], ret |-> {}]
    ELSE IF v.err \/ j > Len(rules[p].body) THEN [v |-> v, ret |-> acc]
    ELSE LET e == rules[p].body[j]
         IN IF e = 0 THEN CollectDescendantsOfRule(p, j + 1, target, depth, v, acc)
            ELSE LET v1 == IF e = target
                           THEN [v EXCEPT !.csym = e, !.crule = p]
                           ELSE v
                     r == CollectDescendantsOfSymbol(e, target, depth + 1, v1)
                 IN CollectDescendantsOfRule(p, j + 1, target, depth, r.v,
                                             acc \cup {e} \cup r.ret)

\* Validator._check_whether_cycle_is_present: "except RuntimeError: break"
RECURSIVE CheckWhetherCycleIsPresent(_, _)
CheckWhetherCycleIsPresent(i, v) ==
    IF i > Len(nonterminal_symbols) THEN v
    ELSE LET s == nonterminal_symbols[i]
             r == CollectDescendantsOfSymbol(s, s, 1, v)
         IN IF r.v.err THEN [r.v EXCEPT !.err = FALSE]
            ELSE CheckWhetherCycleIsPresent(i + 1, r.v)

\* the top-level-existence check of Validator.__init__
TopLevelSymbols ==
    SelectSeq(nonterminal_symbols,
              LAMBDA h : symbols[h].expansions_are_complete_outputs
                         /\ symbols[h].name # "START")

\* mutant of AfterValidation: the test on the Validator's errors is left out
AfterValidationAlways(errors) == "count"

\* Reductionist.__init__, "if not self.validator.errors": the stage after validation
AfterValidation(errors) == IF errors = 0 THEN "count" ELSE "done"

\* Validator.__init__
Validate ==
    /\ pc = "validate"
    /\ ran' = ran \cup {"validate"}
    /\ LET v0 == [memo |-> [h \in Range(nonterminal_symbols) |-> <<>>],
                  csym |-> 0, crule |-> 0, err |-> FALSE]
           v == CheckWhetherCycleIsPresent(1, v0)
           errors == IF v.csym # 0 THEN 1 ELSE 0
       IN /\ validator' = [errors |-> errors,
                           warnings |-> IF TopLevelSymbols = <<>> THEN 1 ELSE 0,
                           descendants_of_symbol |-> v.memo,
                           symbol_associated_with_cycle |-> v.csym,
                           rule_associated_with_cycle |-> v.crule]
          /\ pc' = AfterValidation(errors)
    /\ UNCHANGED <<declared, content, verbosity, symbols, rules, nonterminal_symbols,
                   production_rules, start_symbol, total_generable_outputs,
                   idx, paths, trie, expressible_meanings, written>>

\* ------------------------------------------------------------------ variant counts
\* A heap h is [symbols, rules, err]: the objects as updated so far and whether
\* RuntimeError is propagating.  Each call returns [h, ret].
Unset(n) == n = NoCount \/ n = 0      \* "if not self.total_generable_variants"

RECURSIVE SymbolCount(_, _, _)
RECURSIVE SymbolCountLoop(_, _, _, _, _)
RECURSIVE RuleCount(_, _, _)
RECURSIVE RuleCountLoop(_, _, _, _, _)

\* NonterminalSymbol.count_generable_variants
SymbolCount(s, depth, h) ==
    IF depth > RecursionLimit THEN [h |-> [h EXCEPT !.err = TRUE], ret |-> 0]
    ELSE IF ~Unset(h.symbols[s].total_generable_variants)
         THEN [h |-> h, ret |-> h.symbols[s].total_generable_variants]
    ELSE LET r == SymbolCountLoop(s, 1, depth, h, 0)
         IN IF r.h.err THEN r
            ELSE [h |-> [r.h EXCEPT !.symbols[s].total_generable_variants = r.ret],
                  ret |-> r.ret]

\* sum(rule.count_generable_variants() for rule in self.production_rules)
SymbolCountLoop(s, i, depth, h, acc) ==
    IF h.err \/ i > Len(h.symbols[s].production_rules) THEN [h |-> h, ret |-> acc]
    ELSE LET r == RuleCount(h.symbols[s].production_rules[i], depth + 1, h)
         IN SymbolCountLoop(s, i + 1, depth, r.h, acc + r.ret)

\* ProductionRule.count_generable_variants
RuleCount(p, depth, h) ==
    IF depth > RecursionLimit THEN [h |-> [h EXCEPT !.err = TRUE], ret |-> 0]
    ELSE IF ~Unset(h.rules[p].total_generable_variants)
         THEN [h |-> h, ret |-> h.rules[p].total_generable_variants]
    ELSE LET r == RuleCountLoop(p, 1, depth, h, 1)
         IN IF r.h.err THEN r
            ELSE [h |-> [r.h EXCEPT !.rules[p].total_generable_variants = r.ret],
                  ret |-> r.ret]

\* mutant of RuleCountLoop: the factors are added, not multiplied
RECURSIVE RuleCountLoopAdding(_, _, _, _, _)
RuleCountLoopAdding(p, j, depth, h, acc) ==
    IF h.err \/ j > Len(h.rules[p].body) THEN [h |-> h, ret |-> acc]
    ELSE LET e == h.rules[p].body[j]
         IN IF e = 0 THEN RuleCountLoopAdding(p, j + 1, depth, h, acc + 1)
            ELSE LET r == SymbolCount(e, depth + 1, h)
                 IN RuleCountLoopAdding(p, j + 1, depth, r.h, acc + r.ret)

\* reduce(operator.mul, (... for symbol in self.body), 1)
RuleCountLoop(p, j, depth, h, acc) ==
    IF h.err \/ j > Len(h.rules[p].body) THEN [h |-> h, ret |-> acc]
    ELSE LET e == h.rules[p].body[j]
         IN IF e = 0 THEN RuleCountLoop(p, j + 1, depth, h, acc * 1)
            ELSE LET r == SymbolCount(e, depth + 1, h)
                 IN RuleCountLoop(p, j + 1, depth, r.h, acc * r.ret)

\* self.total_generable_outputs = self.grammar.start_symbol.count_generable_variants()
CountGenerableOutputs ==
    /\ pc = "count"
    /\ ran' = ran \cup {"count"}
    /\ LET r == SymbolCount(start_symbol, 1,
                            [symbols |-> symbols, rules |-> rules, err |-> FALSE])
       IN /\ symbols' = r.h.symbols
          /\ rules' = r.h.rules
          /\ IF r.h.err
             THEN /\ pc' = "crashed"
                  /\ UNCHANGED <<total_generable_outputs, idx>>
             ELSE /\ total_generable_outputs' = r.ret
                  /\ idx' = 1
                  /\ pc' = "mark_rules"
    /\ UNCHANGED <<declared, content, verbosity, nonterminal_symbols, production_rules,
                   start_symbol, validator, paths, trie, expressible_meanings, written>>

\* ------------------------------------------------------------------ meaningfulness
Flag(b) == IF b THEN "True" ELSE "False"
IsTrue(f) == f = "True"                \* truth value of None, True, False

RECURSIVE DetermineRule(_, _, _)
RECURSIVE AnyDescendantRule(_, _, _, _)

\* all_direct_descendant_rules of a rule body
DirectDescendantRules(h, body) ==
    Flatten([j \in 1..Len(body) |->
                IF body[j] # 0 THEN h.symbols[body[j]].production_rules ELSE <<>>])

\* Reductionist._determine_if_production_rule_is_semantically_meaningful
DetermineRule(p, depth, h) ==
    IF depth > RecursionLimit THEN [h |-> [h EXCEPT !.err = TRUE], ret |-> FALSE]
    ELSE IF h.rules[p].semantically_meaningful # None
         THEN [h |-> h, ret |-> IsTrue(h.rules[p].semantically_meaningful)]
    ELSE IF h.rules[p].tags # {}
         THEN [h |-> [h EXCEPT !.rules[p].semantically_meaningful = "True"], ret |-> TRUE]
    ELSE LET r == AnyDescendantRule(DirectDescendantRules(h, h.rules[p].body), 1, depth, h)
         IN IF r.h.err THEN r
            ELSE [h |-> [r.h EXCEPT !.rules[p].semantically_meaningful = Flag(r.ret)],
                  ret |-> r.ret]

\* mutant of AnyDescendantRule: only the first descendant rule is looked at
AnyDescendantRuleFirstOnly(all, k, depth, h) ==
    IF h.err \/ k > Len(all) THEN [h |-> h, ret |-> FALSE]
    ELSE DetermineRule(all[k], depth + 1, h)

\* any(self._determine...(production_rule=rule) for rule in all_direct_descendant_rules):
\* stops at the first rule found meaningful
AnyDescendantRule(all, k, depth, h) ==
    IF h.err \/ k > Len(all) THEN [h |-> h, ret |-> FALSE]
    ELSE LET r == DetermineRule(all[k], depth + 1, h)
         IN IF r.h.err THEN r
            ELSE IF r.ret THEN [h |-> r.h, ret |-> TRUE]
            ELSE AnyDescendantRule(all, k + 1, depth, r.h)

\* mutant of DetermineSymbol: the flag is set only when the symbol is meaningful
DetermineSymbolTrueOnly(s) ==
    IF symbols[s].semantically_meaningful # None
    THEN symbols[s].semantically_meaningful
    ELSE IF \/ symbols[s].tags # {}
            \/ \E i \in 1..Len(symbols[s].production_rules) :
                  IsTrue(rules[symbols[s].production_rules[i]].semantically_meaningful)
         THEN "True" ELSE None

\* Reductionist._determine_if_nonterminal_symbol_is_semantically_meaningful
DetermineSymbol(s) ==
    IF symbols[s].semantically_meaningful # None
    THEN symbols[s].semantically_meaningful
    ELSE Flag(\/ symbols[s].tags # {}
              \/ \E i \in 1..Len(symbols[s].production_rules) :
                    IsTrue(rules[symbols[s].production_rules[i]].semantically_meaningful))

\* _build_trie, one turn of "for rule in self.grammar.production_rules"
MarkRule ==
    /\ pc = "mark_rules"
    /\ ran' = ran \cup {"mark_rules"}
    /\ LET r == DetermineRule(production_rules[idx], 1,
                              [symbols |-> symbols, rules |-> rules, err |-> FALSE])
       IN /\ rules' = r.h.rules
          /\ IF r.h.err
             THEN pc' = "crashed" /\ idx' = idx
             ELSE IF idx < Len(production_rules)
                  THEN pc' = "mark_rules" /\ idx' = idx + 1
                  ELSE pc' = "mark_symbols" /\ idx' = 1
    /\ UNCHANGED <<declared, content, verbosity, symbols, nonterminal_symbols, production_rules,
                   start_symbol, validator, total_generable_outputs, paths, trie,
                   expressible_meanings, written>>

\* _build_trie, one turn of "for symbol in self.grammar.nonterminal_symbols"
MarkSymbol ==
    /\ pc = "mark_symbols"
    /\ ran' = ran \cup {"mark_symbols"}
    /\ symbols' = [symbols EXCEPT ![nonterminal_symbols[idx]].semantically_meaningful =
                                      DetermineSymbol(nonterminal_symbols[idx])]
    /\ IF idx < Len(nonterminal_symbols)
       THEN pc' = "mark_symbols" /\ idx' = idx + 1
       ELSE pc' = "collect" /\ idx' = 0
    /\ UNCHANGED <<declared, content, verbosity, rules, nonterminal_symbols, production_rules,
                   start_symbol, validator, total_generable_outputs, paths, trie,
                   expressible_meanings, written>>

\* ------------------------------------------------------------------ path strings
Digits == <<"0", "1", "2", "3", "4", "5", "6", "7", "8", "9">>
Comma == ","

\* unicode(n) / '{}'.format(n) of a non-negative integer
RECURSIVE Str(_)
Str(n) == IF n < 10 THEN <<Digits[n + 1]>>
          ELSE Str(n \div 10) \o <<Digits[(n % 10) + 1]>>

\* ','.join(parts)
RECURSIVE Join(_)
Join(parts) ==
    IF parts = <<>> THEN <<>>
    ELSE IF Len(parts) = 1 THEN parts[1]
    ELSE parts[1] \o <<Comma>> \o Join(Tail(parts))

\* path_string.split(',')
RECURSIVE SplitFrom(_, _, _)
SplitFrom(s, i, cur) ==
    IF i > Len(s) THEN <<cur>>
    ELSE IF s[i] = Comma THEN <<cur>> \o SplitFrom(s, i + 1, <<>>)
    ELSE SplitFrom(s, i + 1, Append(cur, s[i]))

Split(s) == SplitFrom(s, 1, <<>>)

\* int(i) of a string of decimal digits
DigitValue(c) == CHOOSE d \in 0..9 : Digits[d + 1] = c

RECURSIVE IntOf(_)
IntOf(s) == IF Len(s) = 1 THEN DigitValue(s[1])
            ELSE IntOf(SubSeq(s, 1, Len(s) - 1)) * 10 + DigitValue(s[Len(s)])

\* ------------------------------------------------------------------ path collection
\* itertools.product(*factors), as a set of tuples
RECURSIVE Product(_)
Product(factors) ==
    IF factors = <<>> THEN {<<>>}
    ELSE {<<x>> \o t : x \in Head(factors), t \in Product(Tail(factors))}

\* [combo for combo in rule_combination if combo]
DropEmpty(t) == SelectSeq(t, LAMBDA c : c # <<>>)

\* u"{my_id}{partial_chain}".format(my_id='{},'.format(id), partial_chain=','.join(...))
PartialRuleChain(id, rule_combination) == (Str(id) \o <<Comma>>) \o Join(rule_combination)

\* mutant of ChainsOfProduct: the rule's own id is left out of the chains it builds
ChainsOfProductWithoutOwnId(id, prod) ==
    LET chains == {Join(DropEmpty(t)) : t \in {u \in prod : DropEmpty(u) # <<>>}}
    IN IF chains # {} THEN chains ELSE {Str(id)}

\* the chains a meaningful rule builds from the Cartesian product of its factors
ChainsOfProduct(id, prod) ==
    LET chains == {PartialRuleChain(id, DropEmpty(t)) :
                      t \in {u \in prod : DropEmpty(u) # <<>>}}
    IN IF chains # {} THEN chains ELSE {Str(id)}

RECURSIVE PathsFromSymbol(_)
RECURSIVE PathsFromRule(_)

\* Reductionist._collect_grammar_paths_descending_from_nonterminal_symbol
PathsFromSymbol(s) ==
    UNION {PathsFromRule(symbols[s].production_rules[i]) :
              i \in 1..Len(symbols[s].production_rules)}

\* mutant of MeaningfulSymbolsIn: every nonterminal of the body is kept
MeaningfulSymbolsInUnpruned(body) == SelectSeq(body, LAMBDA e : e # 0)

\* mutant of MeaningfulSymbolsIn: only the symbols that carry tags themselves are kept
MeaningfulSymbolsInTaggedOnly(body) ==
    SelectSeq(body, LAMBDA e : e # 0 /\ symbols[e].tags # {})

\* the symbols of a rule body whose paths are collected
MeaningfulSymbolsIn(body) ==
    SelectSeq(body, LAMBDA e : e # 0 /\ IsTrue(symbols[e].semantically_meaningful))

\* Reductionist._collect_grammar_paths_descending_from_production_rule
PathsFromRule(p) ==
    IF IsTrue(rules[p].semantically_meaningful)
    THEN LET kept == MeaningfulSymbolsIn(rules[p].body)
             prod == Product([j \in 1..Len(kept) |-> PathsFromSymbol(kept[j])])
         IN IF prod # {} THEN ChainsOfProduct(rules[p].id, prod)
            ELSE {Str(rules[p].id)}
    ELSE {<<>>}

\* The invocations of the collector on symbols that an invocation on symbol s, or on
\* rule p, gives rise to: each is [from, on], the rule whose body is being expanded
\* and the symbol the collector is invoked on.
RECURSIVE CallsFromSymbol(_)
RECURSIVE CallsFromRule(_)

CallsFromSymbol(s) ==
    UNION {CallsFromRule(symbols[s].production_rules[i]) :
              i \in 1..Len(symbols[s].production_rules)}

CallsFromRule(p) ==
    IF IsTrue(rules[p].semantically_meaningful)
    THEN LET kept == MeaningfulSymbolsIn(rules[p].body)
         IN UNION {{[from |-> p, on |-> kept[j]]} \cup CallsFromSymbol(kept[j]) :
                      j \in 1..Len(kept)}
    ELSE {}

\* marisa_trie.Trie(keys): every key gets a distinct id in 0..n-1, and iteritems()
\* yields the (key, id) pairs in an order of the library's choosing (see Orders)
Tries(keys) ==
    {[i \in 1..Cardinality(keys) |-> [path |-> o[i], key |-> k[i]]] :
        o \in Orders(keys), k \in Orders(0..(Cardinality(keys) - 1))}

\* the rest of _build_trie: collect the paths from the start symbol, build the trie
BuildTrie ==
    /\ pc = "collect"
    /\ ran' = ran \cup {"collect"}
    /\ paths' = PathsFromSymbol(start_symbol)
    /\ trie' \in Tries(paths')
    /\ pc' = "save_trie"
    /\ UNCHANGED <<declared, content, verbosity, symbols, rules, nonterminal_symbols,
                   production_rules, start_symbol, validator, total_generable_outputs,
                   idx, expressible_meanings, written>>

\* Reductionist._save_trie: the save is inside "if self.verbosity > 0"
SaveTrie ==
    /\ pc = "save_trie"
    /\ ran' = ran \cup {"save_trie"}
    /\ written' = IF verbosity > 0 THEN written \cup {"marisa"} ELSE written
    /\ pc' = "meanings"
    /\ UNCHANGED <<declared, content, verbosity, symbols, rules, nonterminal_symbols,
                   production_rules, start_symbol, validator, total_generable_outputs,
                   idx, paths, trie, expressible_meanings>>

\* ------------------------------------------------------------------ expressible meanings
\* rules_on_that_path: [self.grammar.production_rules[int(i)] for i in path_string.split(',')]
RulesOnPath(path_string) ==
    IF path_string # <<>>
    THEN LET ids == Split(path_string)
         IN [k \in 1..Len(ids) |-> production_rules[IntOf(ids[k]) + 1]]
    ELSE <<>>

\* all_tags_for_that_path
TagsOfPath(path_string) ==
    LET on == RulesOnPath(path_string)
    IN UNION {rules[on[k]].tags : k \in 1..Len(on)}

\* mutant of AddPath: every path starts a meaning of its own
AddPathNeverClustering(ems, item) ==
    Append(ems, [id |-> Len(ems), tags |-> TagsOfPath(item.path),
                 grammar_paths |-> <<item.key>>])

\* mutant of AddPath: a path joins the first meaning whose tags it shares a tag with
AddPathOnSharedTag(ems, item) ==
    LET all_tags == TagsOfPath(item.path)
        found == {m \in 1..Len(ems) : ems[m].tags \cap all_tags # {}}
    IN IF found # {}
       THEN [ems EXCEPT ![Min(found)].grammar_paths = Append(@, item.key)]
       ELSE Append(ems, [id |-> Len(ems), tags |-> all_tags, grammar_paths |-> <<item.key>>])

\* one turn of the loop of _construct_expressible_meanings over an item of the trie
AddPath(ems, item) ==
    LET all_tags == TagsOfPath(item.path)
        found == {m \in 1..Len(ems) : ems[m].tags = all_tags}
    IN IF found # {}
       THEN [ems EXCEPT ![Min(found)].grammar_paths = Append(@, item.key)]
       ELSE Append(ems, [id |-> Len(ems), tags |-> all_tags, grammar_paths |-> <<item.key>>])

RECURSIVE MeaningsFrom(_, _)
MeaningsFrom(i, ems) ==
    IF i > Len(trie) THEN ems ELSE MeaningsFrom(i + 1, AddPath(ems, trie[i]))

\* Reductionist._construct_expressible_meanings
ConstructExpressibleMeanings ==
    /\ pc = "meanings"
    /\ ran' = ran \cup {"meanings"}
    /\ expressible_meanings' = MeaningsFrom(1, <<>>)
    /\ pc' = "save_meanings"
    /\ UNCHANGED <<declared, content, verbosity, symbols, rules, nonterminal_symbols,
                   production_rules, start_symbol, validator, total_generable_outputs,
                   idx, paths, trie, written>>

\* ------------------------------------------------------------------ output files
SaveStep(at, file, to) ==
    /\ pc = at
    /\ ran' = ran \cup {at}
    /\ written' = written \cup {file}
    /\ pc' = to
    /\ UNCHANGED <<declared, content, verbosity, symbols, rules, nonterminal_symbols,
                   production_rules, start_symbol, validator, total_generable_outputs,
                   idx, paths, trie, expressible_meanings>>

\* Reductionist._save_expressible_meanings
SaveExpressibleMeanings == SaveStep("save_meanings", "meanings", "save_grammar")

\* Reductionist._save_grammar
SaveGrammar == SaveStep("save_grammar", "grammar", "write_stats")

\* Reductionist._write_stats_file
WriteStatsFile == SaveStep("write_stats", "stats", "done")

\* ------------------------------------------------------------------ the run
Next ==
    \/ GrammarInit
    \/ CreateStartSymbol
    \/ SortLists
    \/ Validate
    \/ CountGenerableOutputs
    \/ MarkRule
    \/ MarkSymbol
    \/ BuildTrie
    \/ SaveTrie
    \/ ConstructExpressibleMeanings
    \/ SaveExpressibleMeanings
    \/ SaveGrammar
    \/ WriteStatsFile

Spec == Init /\ [][Next]_vars

\* ------------------------------------------------------------------ reference notions
\* The grammar as authored: symbol i references symbol j when a rule body of i
\* holds the token [[name of j]].
RefersTo(i) ==
    {j \in DOMAIN content :
        \E k \in DOMAIN content[i].rules :
            \E l \in DOMAIN content[i].rules[k].expansion :
                content[i].rules[k].expansion[l] = Ref(content[j].name)}

RECURSIVE Closure(_)
Closure(S) ==
    LET T == S \cup UNION {RefersTo(x) : x \in S}
    IN IF T = S THEN S ELSE Closure(T)

\* the symbols reachable from i through rule-body references
ReachableFrom(i) == Closure(RefersTo(i))

SelfReachable == {i \in DOMAIN content : i \in ReachableFrom(i)}

Cyclic == SelfReachable # {}
Acyclic == ~Cyclic

Validated == "validate" \in ran

LaterStages == {"count", "mark_rules", "mark_symbols", "collect", "save_trie", "meanings",
                "save_meanings", "save_grammar", "write_stats"}

AllFiles == {"marisa", "meanings", "grammar", "stats"}

\* ------------------------------------------------------------------ claims
\* C1: whenever some symbol of the grammar is reachable from itself, the Validator
\* finishes with exactly one cycle error, naming a symbol that is reachable from itself.
C1_CycleAlwaysRecorded ==
    (Validated /\ Cyclic) =>
        /\ validator.errors = 1
        /\ validator.symbol_associated_with_cycle \in SelfReachable

\* C2: once the Validator has recorded a cycle error, no later stage runs, no file is
\* written, and every meaningful flag and variant count stays unset.
C2_CycleErrorBlocksTheRun ==
    validator.errors > 0 =>
        /\ ran \cap LaterStages = {}
        /\ written = {}
        /\ \A h \in DOMAIN symbols :
              /\ symbols[h].semantically_meaningful = None
              /\ symbols[h].total_generable_variants = NoCount
        /\ \A h \in DOMAIN rules :
              /\ rules[h].semantically_meaningful = None
              /\ rules[h].total_generable_variants = NoCount
        /\ total_generable_outputs = NoCount
        /\ paths = {} /\ trie = <<>> /\ expressible_meanings = <<>>

\* C2 witness: a run that ended on a recorded cycle error
C2_Witness == validator.errors > 0 /\ pc = "done"

\* The tag combinations of the complete derivations from a symbol: a derivation
\* fires one rule of each nonterminal it expands, and its combination is the union
\* of the tags of the rules it fires.
RECURSIVE DerivableFromSymbol(_)
RECURSIVE DerivableFromBody(_, _)

DerivableFromSymbol(s) ==
    UNION {{rules[symbols[s].production_rules[i]].tags \cup c :
               c \in DerivableFromBody(rules[symbols[s].production_rules[i]].body, 1)} :
           i \in DOMAIN symbols[s].production_rules}

DerivableFromBody(body, j) ==
    IF j > Len(body) THEN {{}}
    ELSE IF body[j] = 0 THEN DerivableFromBody(body, j + 1)
    ELSE {a \cup b : a \in DerivableFromSymbol(body[j]), b \in DerivableFromBody(body, j + 1)}

MeaningsBuilt == "meanings" \in ran

MeaningTagSets == {expressible_meanings[m].tags : m \in DOMAIN expressible_meanings}

\* C3: for an acyclic grammar the tag-sets of the expressible meanings are exactly the
\* tag combinations of the complete derivations from the start symbol.
C3_MeaningsAreTheDerivableCombinations ==
    (Acyclic /\ MeaningsBuilt) => MeaningTagSets = DerivableFromSymbol(start_symbol)

\* the position in the trie's enumeration of the first path clustered under meaning m
FirstSeen(m) ==
    Min({i \in DOMAIN trie : \E k \in DOMAIN expressible_meanings[m].grammar_paths :
                                 expressible_meanings[m].grammar_paths[k] = trie[i].key})

\* how often key occurs in the path list of meaning m
Occurrences(m, key) ==
    Cardinality({k \in DOMAIN expressible_meanings[m].grammar_paths :
                    expressible_meanings[m].grammar_paths[k] = key})

\* C4: after clustering no two meanings have equal tag-sets, the meaning ids are
\* 0..n-1 in the order in which their tag-sets were first seen in the enumeration of
\* the dictionary, and every key of the dictionary is in the path list of exactly one
\* meaning, exactly once.
C4_MeaningsPartitionThePaths ==
    MeaningsBuilt =>
        /\ \A m, n \in DOMAIN expressible_meanings :
              expressible_meanings[m].tags = expressible_meanings[n].tags => m = n
        /\ \A m \in DOMAIN expressible_meanings :
              /\ expressible_meanings[m].id = m - 1
              /\ expressible_meanings[m].grammar_paths # <<>>
              /\ \A k \in DOMAIN expressible_meanings[m].grammar_paths :
                    \E i \in DOMAIN trie :
                        trie[i].key = expressible_meanings[m].grammar_paths[k]
        /\ \A m, n \in DOMAIN expressible_meanings : m < n => FirstSeen(m) < FirstSeen(n)
        /\ \A i \in DOMAIN trie :
              /\ Cardinality({m \in DOMAIN expressible_meanings :
                                 Occurrences(m, trie[i].key) > 0}) = 1
              /\ \A m \in DOMAIN expressible_meanings : Occurrences(m, trie[i].key) <= 1

\* C4 witness: clustering has produced two meanings, one of them holding two paths
C4_Witness ==
    /\ MeaningsBuilt
    /\ Len(expressible_meanings) >= 2
    /\ \E m \in DOMAIN expressible_meanings : Len(expressible_meanings[m].grammar_paths) >= 2

\* the path string the dictionary stores under a key
PathOfKey(key) == trie[CHOOSE i \in DOMAIN trie : trie[i].key = key].path

\* the tags of the rules a path string names, each id looked up in the rule list
DecodedTags(path_string) ==
    IF path_string = <<>> THEN {}
    ELSE UNION {rules[production_rules[IntOf(Split(path_string)[k]) + 1]].tags :
                   k \in DOMAIN Split(path_string)}

\* C5: decoding the path string of any key in a meaning's path list to rule ids and
\* uniting those rules' tags gives exactly the meaning's tag-set.
C5_PathsDecodeToTheirMeaning ==
    MeaningsBuilt =>
        \A m \in DOMAIN expressible_meanings :
            \A k \in DOMAIN expressible_meanings[m].grammar_paths :
                DecodedTags(PathOfKey(expressible_meanings[m].grammar_paths[k]))
                    = expressible_meanings[m].tags

\* C5 witness: a meaning with tags holds a path naming two rules, and another
\* meaning exists beside it
C5_Witness ==
    /\ MeaningsBuilt
    /\ Len(expressible_meanings) >= 2
    /\ \E m \in DOMAIN expressible_meanings :
          /\ expressible_meanings[m].tags # {}
          /\ \E k \in DOMAIN expressible_meanings[m].grammar_paths :
                Len(Split(PathOfKey(expressible_meanings[m].grammar_paths[k]))) >= 2

\* the meaningfulness pass of _build_trie is under way / has run to its end
InPass == pc \in {"mark_rules", "mark_symbols"}

PassDone == "mark_symbols" \in ran /\ pc \notin {"mark_symbols", "crashed"}

FlagsSet ==
    /\ \A h \in DOMAIN rules : rules[h].semantically_meaningful \in {"True", "False"}
    /\ \A h \in DOMAIN symbols : symbols[h].semantically_meaningful \in {"True", "False"}

\* the turns the pass still has to take
TurnsLeft ==
    IF pc = "mark_rules"
    THEN (Len(production_rules) - idx) + Len(nonterminal_symbols) + 1
    ELSE IF pc = "mark_symbols" THEN Len(nonterminal_symbols) - idx + 1
    ELSE 0

FlagsKept ==
    /\ \A h \in DOMAIN rules :
          rules[h].semantically_meaningful # None =>
              rules'[h].semantically_meaningful = rules[h].semantically_meaningful
    /\ \A h \in DOMAIN symbols :
          symbols[h].semantically_meaningful # None =>
              symbols'[h].semantically_meaningful = symbols[h].semantically_meaningful

\* C6: on an acyclic grammar every turn of the meaningfulness pass ends without
\* RuntimeError and leaves fewer turns to take, so the pass terminates; when it ends
\* every rule and every symbol, the start symbol and the symbols out of its reach
\* included, has its flag set to true or false; and a flag once set never changes.
C6_PassTerminatesAndSetsEveryFlag ==
    [][/\ FlagsKept
       /\ (Acyclic /\ InPass) =>
             /\ pc' # "crashed"
             /\ TurnsLeft' < TurnsLeft
             /\ (~InPass' => (PassDone' /\ FlagsSet'))]_vars

\* C6 witness: the pass has ended on a grammar holding a symbol the start symbol
\* does not reach, with flags of both values
C6_Witness ==
    /\ Acyclic /\ PassDone /\ FlagsSet
    /\ \E h \in DOMAIN content :
          /\ ~content[h].deep
          /\ \A g \in DOMAIN content : content[g].deep => h \notin ReachableFrom(g)
    /\ \E h \in DOMAIN rules : rules[h].semantically_meaningful = "True"
    /\ \E h \in DOMAIN rules : rules[h].semantically_meaningful = "False"

BodySymbols(p) == {rules[p].body[j] : j \in DOMAIN rules[p].body} \ {0}

RulesOf(s) == {symbols[s].production_rules[i] : i \in DOMAIN symbols[s].production_rules}

\* C7: after the pass on an acyclic grammar, a rule is meaningful iff it has a tag or
\* some nonterminal of its body heads a meaningful rule, and a symbol is meaningful
\* iff it has a tag or has a meaningful rule.
C7_MeaningfulIffTaggedOrLeadsToMeaningful ==
    (Acyclic /\ PassDone) =>
        /\ \A r \in DOMAIN rules :
              IsTrue(rules[r].semantically_meaningful) <=>
                  \/ rules[r].tags # {}
                  \/ \E e \in BodySymbols(r) : \E q \in RulesOf(e) :
                        IsTrue(rules[q].semantically_meaningful)
        /\ \A s \in DOMAIN symbols :
              IsTrue(symbols[s].semantically_meaningful) <=>
                  \/ symbols[s].tags # {}
                  \/ \E q \in RulesOf(s) : IsTrue(rules[q].semantically_meaningful)

\* C7 witness: after the pass an untagged rule is meaningful through a rule of a
\* symbol in its body, and an untagged symbol is meaningful through one of its rules
C7_Witness ==
    /\ Acyclic /\ PassDone
    /\ \E r \in DOMAIN rules :
          /\ rules[r].tags = {}
          /\ IsTrue(rules[r].semantically_meaningful)
    /\ \E s \in DOMAIN symbols :
          /\ symbols[s].tags = {}
          /\ IsTrue(symbols[s].semantically_meaningful)
    /\ \E r \in DOMAIN rules : ~IsTrue(rules[r].semantically_meaningful)

\* C8: a run whose validation records no error has written all four files by its
\* end, at every verbosity.
C8_AllFilesWritten ==
    (pc = "done" /\ Validated /\ validator.errors = 0) => written = AllFiles

NoAuthoredTopLevel == \A i \in DOMAIN content : ~content[i].deep

\* C9: with no authored top-level symbol and no cycle, the run never crashes, and at
\* its end the Validator holds a warning and no error, all files are written, the
\* start symbol has no rules, no path and no meaning exists, and the total is 0.
C9_NoTopLevelRunsToDegenerateResult ==
    (NoAuthoredTopLevel /\ Acyclic) =>
        /\ pc # "crashed"
        /\ pc = "done" =>
              /\ validator.warnings = 1
              /\ validator.errors = 0
              /\ written = AllFiles
              /\ symbols[start_symbol].production_rules = <<>>
              /\ paths = {}
              /\ expressible_meanings = <<>>
              /\ total_generable_outputs = 0

\* The variant counts by their definition: a symbol's count is the sum of its rules'
\* counts, a rule's count the product over its body of 1 for a terminal and the
\* symbol's count for a nonterminal.
RECURSIVE SumOfRules(_, _)
RECURSIVE ProductOfBody(_, _)

SumOfRules(s, i) ==
    IF i > Len(symbols[s].production_rules) THEN 0
    ELSE ProductOfBody(symbols[s].production_rules[i], 1) + SumOfRules(s, i + 1)

ProductOfBody(p, j) ==
    IF j > Len(rules[p].body) THEN 1
    ELSE (IF rules[p].body[j] = 0 THEN 1 ELSE SumOfRules(rules[p].body[j], 1))
             * ProductOfBody(p, j + 1)

RECURSIVE SumOfTopLevel(_)
SumOfTopLevel(i) ==
    IF i > Len(content) THEN 0
    ELSE (IF content[i].deep THEN SumOfRules(i, 1) ELSE 0) + SumOfTopLevel(i + 1)

Counted == "count" \in ran /\ pc # "crashed"

\* C10: on an acyclic grammar every variant count that has been computed equals the
\* sum/product definition, and the total of generable outputs is the start symbol's
\* count, which is the sum of the counts of the top-level symbols.
C10_CountsMatchTheDefinition ==
    (Acyclic /\ Counted) =>
        /\ \A s \in DOMAIN symbols :
              symbols[s].total_generable_variants # NoCount =>
                  symbols[s].total_generable_variants = SumOfRules(s, 1)
        /\ \A p \in DOMAIN rules :
              rules[p].total_generable_variants # NoCount =>
                  rules[p].total_generable_variants = ProductOfBody(p, 1)
        /\ total_generable_outputs = symbols[start_symbol].total_generable_variants
        /\ total_generable_outputs = SumOfTopLevel(1)

\* C10 witness: a counted rule with two nonterminals in its body, each standing for
\* more than one variant, and a total that sums more than one start rule
C10_Witness ==
    /\ Acyclic /\ Counted
    /\ \E p \in DOMAIN rules :
          /\ rules[p].total_generable_variants >= 4
          /\ Len(rules[p].body) = 2
          /\ \A j \in 1..2 : rules[p].body[j] # 0
    /\ Len(symbols[start_symbol].production_rules) = 2
    /\ total_generable_outputs >= 5

\* ------------------------------------------------------------------ wider bodies
\* every untagged grammar of MaxSymbols symbols with at most MaxRules rules per
\* symbol, bodies of zero to MaxBody + 1 tokens and at most MaxTokens tokens in all
\* (a grammar holding an empty body does not get past Grammar.__init__)
TokenCount(c) ==
    LET RECURSIVE Tok(_, _)
        Tok(i, k) ==
            IF i > Len(c) THEN 0
            ELSE IF k > Len(c[i].rules) THEN Tok(i + 1, 1)
            ELSE Len(c[i].rules[k].expansion) + Tok(i, k + 1)
    IN Tok(1, 1)

WideContents ==
    {c \in ContentsUpTo(MaxSymbols, MaxSymbols, 0, MaxBody + 1, {{}}) :
        TokenCount(c) <= MaxTokens}

InitWide ==
    /\ content \in WideContents
    /\ declared \in Declarations(content)
    /\ verbosity = 1
    /\ pc = "grammar"
    /\ ran = {}
    /\ symbols = <<>>
    /\ rules = <<>>
    /\ nonterminal_symbols = <<>>
    /\ production_rules = <<>>
    /\ start_symbol = 0
    /\ validator = EmptyValidator
    /\ total_generable_outputs = NoCount
    /\ idx = 0
    /\ paths = {}
    /\ trie = <<>>
    /\ expressible_meanings = <<>>
    /\ written = {}

SpecWide == InitWide /\ [][Next]_vars

\* ------------------------------------------------------------------ further inputs
\* the state of a run before Reductionist.__init__ has done anything
Constructed ==
    /\ pc = "grammar"
    /\ ran = {}
    /\ symbols = <<>>
    /\ rules = <<>>
    /\ nonterminal_symbols = <<>>
    /\ production_rules = <<>>
    /\ start_symbol = 0
    /\ validator = EmptyValidator
    /\ total_generable_outputs = NoCount
    /\ idx = 0
    /\ paths = {}
    /\ trie = <<>>
    /\ expressible_meanings = <<>>
    /\ written = {}

\* The greeting grammar.  A rule carries the tags of the symbols in its body
\* (ProductionRule.compile_tags), so the two rules of Name are [[Alice]] and
\* [[Bob]], with the tags on the symbols Alice and Bob.
ExampleSymbols ==
    {[name |-> "Greeting", deep |-> TRUE, markup |-> {},
      rules |-> <<[expansion |-> <<Lit, Ref("Name")>>, app_rate |-> 2],
                  [expansion |-> <<Lit, Ref("Name")>>, app_rate |-> 2]>>],
     [name |-> "Name", deep |-> FALSE, markup |-> {},
      rules |-> <<[expansion |-> <<Ref("Alice")>>, app_rate |-> 2],
                  [expansion |-> <<Ref("Bob")>>, app_rate |-> 2]>>],
     [name |-> "Alice", deep |-> FALSE, markup |-> {"character:alice"},
      rules |-> <<[expansion |-> <<Lit>>, app_rate |-> 2]>>],
     [name |-> "Bob", deep |-> FALSE, markup |-> {"character:bob"},
      rules |-> <<[expansion |-> <<Lit>>, app_rate |-> 2]>>]}

\* the example in every order in which the dict can enumerate its symbols
InitExample ==
    /\ content \in Orders(ExampleSymbols)
    /\ declared = <<"Greeting", "Name", "Alice", "Bob">>
    /\ verbosity \in Verbosities
    /\ Constructed

SpecExample == InitExample /\ [][Next]_vars

\* the handle of the k-th rule of the authored symbol named nm
RuleOfNamed(nm, k) ==
    LET i == CHOOSE i \in DOMAIN content : content[i].name = nm
    IN symbols[i].production_rules[k]

\* the rule ids a path string names, in order
IdsOnPath(path_string) ==
    IF path_string = <<>> THEN <<>>
    ELSE [k \in DOMAIN Split(path_string) |-> IntOf(Split(path_string)[k])]

\* the rule ids named by the paths in the path list of meaning m
DecodedPathsOf(m) ==
    {IdsOnPath(PathOfKey(expressible_meanings[m].grammar_paths[k])) :
        k \in DOMAIN expressible_meanings[m].grammar_paths}

\* the last two rule ids a path names
LastTwo(ids) == SubSeq(ids, Len(ids) - 1, Len(ids))

\* C11: on the greeting grammar the run counts 4 generable outputs, builds exactly
\* the two meanings {character:alice} and {character:bob}, marks both Greeting rules
\* meaningful, and gives each meaning exactly two paths, one per Greeting rule, each
\* naming (after the start symbol's rule) that Greeting rule and then the Name rule
\* that carries the meaning's tag.
C11_GreetingExample ==
    MeaningsBuilt =>
        /\ total_generable_outputs = 4
        /\ Len(expressible_meanings) = 2
        /\ MeaningTagSets = {{"character:alice"}, {"character:bob"}}
        /\ \A k \in 1..2 : rules[RuleOfNamed("Greeting", k)].semantically_meaningful = "True"
        /\ \A m \in DOMAIN expressible_meanings :
              /\ Len(expressible_meanings[m].grammar_paths) = 2
              /\ Cardinality(DecodedPathsOf(m)) = 2
              /\ \E n \in 1..2 :
                    /\ rules[RuleOfNamed("Name", n)].tags = expressible_meanings[m].tags
                    /\ {LastTwo(ids) : ids \in DecodedPathsOf(m)} =
                          {<<rules[RuleOfNamed("Greeting", k)].id,
                             rules[RuleOfNamed("Name", n)].id>> : k \in 1..2}
                    /\ \A ids \in DecodedPathsOf(m) :
                          ids = <<rules[symbols[start_symbol].production_rules[1]].id>>
                                    \o LastTwo(ids)

\* C11 witness: the run on the greeting grammar has ended with its files saved
C11_Witness ==
    /\ pc = "done" /\ "stats" \in written
    /\ \E i \in DOMAIN content : content[i].name = "Greeting"
    /\ Len(expressible_meanings) = 2
    /\ Cardinality(paths) = 4

\* ------------------------------------------------------------------ free names
\* Grammars whose symbols are named freely: a rule body may reference a name that
\* no symbol declares, and an authored symbol may itself be named START.
NameLists == {<<"A">>, <<"START">>, <<"A", "B">>, <<"A", "START">>, <<"START", "A">>}
RefNames == {"A", "B", "START"}

NamedRuleLists ==
    UNION {[1..k -> [expansion : UNION {[1..l -> {Lit} \cup {Ref(nm) : nm \in RefNames}] :
                                           l \in 1..MaxBody},
                     app_rate : AppRates]] : k \in 0..MaxRules}

RECURSIVE NamedContents(_)
NamedContents(names) ==
    IF names = <<>> THEN {<<>>}
    ELSE {<<sp>> \o c :
             sp \in [name : {Head(names)}, deep : BOOLEAN, markup : {{}}, rules : NamedRuleLists],
             c \in NamedContents(Tail(names))}

InitNames ==
    /\ content \in UNION {NamedContents(names) : names \in NameLists}
    /\ declared \in Declarations(content)
    /\ verbosity \in Verbosities
    /\ Constructed

SpecNames == InitNames /\ [][Next]_vars

\* some rule body references a name that no symbol declares
Dangling ==
    \E i \in DOMAIN content : \E k \in DOMAIN content[i].rules :
        \E l \in DOMAIN content[i].rules[k].expansion :
            /\ content[i].rules[k].expansion[l].ref
            /\ \A j \in DOMAIN content :
                  content[j].name # content[i].rules[k].expansion[l].name

\* C12: when a rule body references an undeclared name, the construction of the
\* grammar fails: the run stops inside Grammar.__init__, no start symbol is created,
\* neither validation nor any later stage runs, and no file is written.
C12_DanglingReferenceIsFatal ==
    Dangling =>
        /\ ran \subseteq {"grammar"}
        /\ "grammar" \in ran => pc = "crashed"
        /\ start_symbol = 0
        /\ \A h \in DOMAIN symbols : ~symbols[h].start_symbol
        /\ validator = EmptyValidator
        /\ written = {}

\* C12 witness: the run has stopped on a grammar with a reference to an undeclared
\* name, beside a reference that does resolve
C12_Witness ==
    /\ Dangling /\ pc = "crashed" /\ "grammar" \in ran
    /\ Len(content) = 2
    /\ \E i \in DOMAIN content : \E k \in DOMAIN content[i].rules :
          /\ content[i].rules[k].expansion[1].ref
          /\ \E j \in DOMAIN content : content[j].name = content[i].rules[k].expansion[1].name

\* ------------------------------------------------------------------ ids
\* the start symbol exists and the lists are sorted
Sorted == "sort" \in ran

AuthoredSymbols == {h \in DOMAIN symbols : ~symbols[h].start_symbol}
AuthoredRules == {h \in DOMAIN rules : rules[h].head \in AuthoredSymbols}

\* the position of the symbol named nm in the enumeration of the dict
IndexOfName(nm) == CHOOSE i \in DOMAIN content : content[i].name = nm

\* the number of rules of the symbols declared before position d of the file
RECURSIVE RulesDeclaredBefore(_)
RulesDeclaredBefore(d) ==
    IF d <= 1 THEN 0
    ELSE RulesDeclaredBefore(d - 1) + Len(content[IndexOfName(declared[d - 1])].rules)

IdsAreContiguous ==
    /\ {symbols[h].id : h \in DOMAIN symbols} = 0..(Len(symbols) - 1)
    /\ {rules[h].id : h \in DOMAIN rules} = 0..(Len(rules) - 1)
    /\ Len(nonterminal_symbols) = Len(symbols)
    /\ Len(production_rules) = Len(rules)

RuleIdsFollowDeclarationOrder ==
    \A d \in DOMAIN declared :
        \A k \in DOMAIN content[IndexOfName(declared[d])].rules :
            rules[symbols[IndexOfName(declared[d])].production_rules[k]].id
                = RulesDeclaredBefore(d) + k - 1

StartComesLast ==
    /\ \A h \in AuthoredSymbols : symbols[h].id < symbols[start_symbol].id
    /\ \A p \in AuthoredRules : \A q \in RulesOf(start_symbol) : rules[p].id < rules[q].id

StartRulesAreTheTopLevelSymbols ==
    /\ \A h \in AuthoredSymbols :
          Cardinality({q \in RulesOf(start_symbol) : rules[q].body = <<h>>})
              = IF symbols[h].expansions_are_complete_outputs THEN 1 ELSE 0
    /\ \A q \in RulesOf(start_symbol) :
          /\ Len(rules[q].body) = 1
          /\ rules[q].body[1] \in AuthoredSymbols
          /\ rules[q].application_frequency = 1
    /\ Cardinality(RulesOf(start_symbol)) = Len(symbols[start_symbol].production_rules)

RuleListIsIndexedById ==
    \A i \in DOMAIN production_rules : rules[production_rules[i]].id = i - 1

\* C13: after the start symbol is created and the lists are sorted, symbol ids and
\* rule ids are each 0..n-1 without gap or duplicate, authored rule ids follow the
\* order in which the file declares the symbols and then the order of their rules,
\* the start symbol's id and its rules' ids are above every authored id, the start
\* symbol has one rule of frequency 1 per top-level authored symbol with that symbol
\* as its body, and the rule at index i of the rule list has id i.
C13_IdsAfterStartSymbol ==
    Sorted =>
        /\ IdsAreContiguous
        /\ RuleIdsFollowDeclarationOrder
        /\ StartComesLast
        /\ StartRulesAreTheTopLevelSymbols
        /\ RuleListIsIndexedById

\* what of C13 does not depend on the order of declaration
C13_AllButDeclarationOrder ==
    Sorted =>
        /\ IdsAreContiguous
        /\ StartComesLast
        /\ StartRulesAreTheTopLevelSymbols
        /\ RuleListIsIndexedById

\* ------------------------------------------------------------------ path sets
\* the path a tuple of the product stands for: the empty members dropped, the rest
\* joined with the separator, the rule's id in front, with a separator only before
\* a non-empty remainder
PathOfTuple(id, t) ==
    IF DropEmpty(t) = <<>> THEN Str(id)
    ELSE (Str(id) \o <<Comma>>) \o Join(DropEmpty(t))

\* the image of the Cartesian product of the path sets of the meaningful
\* nonterminals in the body of rule p
ImageOfProduct(p) ==
    LET kept == MeaningfulSymbolsIn(rules[p].body)
    IN {PathOfTuple(rules[p].id, t) :
           t \in Product([j \in 1..Len(kept) |-> PathsFromSymbol(kept[j])])}

\* C14: the path set of every meaningful rule is the image of the Cartesian product
\* of the path sets of the meaningful nonterminals in its body, every tuple of the
\* product contributing a path.
C14_PathSetIsTheImageOfTheProduct ==
    (Acyclic /\ PassDone) =>
        \A p \in DOMAIN rules :
            IsTrue(rules[p].semantically_meaningful) => PathsFromRule(p) = ImageOfProduct(p)

\* ------------------------------------------------------------------ stage order
\* C15: the start symbol and its rules are created only after the Validator has
\* checked the authored graph, so the symbols the Validator memoizes are authored
\* symbols only.
C15_StartSymbolCreatedAfterValidation ==
    /\ start_symbol # 0 => Validated
    /\ Validated => DOMAIN validator.descendants_of_symbol \subseteq AuthoredSymbols

\* ------------------------------------------------------------------ warning
\* C16: the Validator records the no-top-level warning exactly when no authored
\* symbol is top-level, whatever the authored symbols are named.
C16_WarningIffNoAuthoredTopLevel ==
    Validated => (validator.warnings = 1 <=> NoAuthoredTopLevel)

\* ------------------------------------------------------------------ three symbols
\* Grammars of three symbols: a top-level symbol A with one to MaxRules rules of one
\* to MaxBody + 1 tokens over "t", [[B]] and [[C]], and two symbols B and C, each
\* untagged or tagged m:a, with at most one rule of MaxBody tokens over "t" and a
\* reference to the other.
TopRuleLists ==
    UNION {[1..k -> [expansion : UNION {[1..l -> {Lit, Ref("B"), Ref("C")}] :
                                           l \in 1..(MaxBody + 1)},
                     app_rate : AppRates]] : k \in 1..MaxRules}

LowRuleLists(other) ==
    UNION {[1..k -> [expansion : UNION {[1..l -> {Lit, Ref(other)}] : l \in 1..MaxBody},
                     app_rate : AppRates]] : k \in 0..1}

ThreeContents ==
    {<<a, b, c>> :
        a \in [name : {"A"}, deep : {TRUE}, markup : {{}}, rules : TopRuleLists],
        b \in [name : {"B"}, deep : {FALSE}, markup : {{}, {"m:a"}}, rules : LowRuleLists("C")],
        c \in [name : {"C"}, deep : {FALSE}, markup : {{}, {"m:a"}}, rules : LowRuleLists("B")]}

InitThree ==
    /\ content \in ThreeContents
    /\ declared = <<"A", "B", "C">>
    /\ verbosity = 1
    /\ Constructed

SpecThree == InitThree /\ [][Next]_vars

\* the paths have been collected
Collected == "collect" \in ran

\* C17: the path set of every rule that is not meaningful is the singleton of the
\* empty path, and while the paths are enumerated from the start symbol the collector
\* is invoked only on meaningful symbols and only from the bodies of meaningful
\* rules: never on a symbol that is not meaningful (the start symbol aside) and
\* never below a rule that is not meaningful.
C17_CollectorIsPruned ==
    Collected =>
        /\ \A p \in DOMAIN rules :
              ~IsTrue(rules[p].semantically_meaningful) =>
                  PathsFromRule(p) = {<<>>} /\ CallsFromRule(p) = {}
        /\ \A c \in CallsFromSymbol(start_symbol) :
              /\ IsTrue(rules[c.from].semantically_meaningful)
              /\ IsTrue(symbols[c.on].semantically_meaningful)

\* C17 witness: the paths were collected through a meaningful rule whose body holds
\* a meaningful symbol and a symbol that is not, the latter with rules of its own
C17_Witness ==
    /\ Collected
    /\ \E c \in CallsFromSymbol(start_symbol) :
          \E j \in DOMAIN rules[c.from].body :
              /\ rules[c.from].body[j] # 0
              /\ ~IsTrue(symbols[rules[c.from].body[j]].semantically_meaningful)
              /\ symbols[rules[c.from].body[j]].production_rules # <<>>

\* ------------------------------------------------------------------ stats
\* C18: once the stats file is written, every symbol and every rule of the grammar,
\* reachable from the start symbol or not, has a variant count that is set and
\* equals the sum/product definition.
C18_StatsHoldEveryCount ==
    (Acyclic /\ "stats" \in written) =>
        /\ \A h \in DOMAIN symbols :
              /\ symbols[h].total_generable_variants # NoCount
              /\ symbols[h].total_generable_variants = SumOfRules(h, 1)
        /\ \A p \in DOMAIN rules :
              /\ rules[p].total_generable_variants # NoCount
              /\ rules[p].total_generable_variants = ProductOfBody(p, 1)

\* ------------------------------------------------------------------ enumerated paths
\* the rule that carries id n
RuleWithId(n) == CHOOSE h \in DOMAIN rules : rules[h].id = n

\* C19: on an acyclic grammar every rule id named in an enumerated path is the id of
\* a meaningful rule, every non-empty enumerated path begins with the id of a rule
\* of the start symbol, and the empty path is enumerated only if the start symbol
\* has a rule that is not meaningful.
C19_PathsNameMeaningfulRulesFromTheStart ==
    (Acyclic /\ Collected) =>
        /\ \A path \in paths : \A k \in DOMAIN IdsOnPath(path) :
              /\ \E h \in DOMAIN rules : rules[h].id = IdsOnPath(path)[k]
              /\ IsTrue(rules[RuleWithId(IdsOnPath(path)[k])].semantically_meaningful)
        /\ \A path \in paths :
              path # <<>> =>
                  \E q \in RulesOf(start_symbol) : rules[q].id = IdsOnPath(path)[1]
        /\ <<>> \in paths =>
              \E q \in RulesOf(start_symbol) : ~IsTrue(rules[q].semantically_meaningful)

\* C19 witness: the enumeration gave the empty path beside a path that names a
\* rule of the start symbol
C19_Witness ==
    /\ Acyclic /\ Collected
    /\ <<>> \in paths
    /\ \E path \in paths : Len(IdsOnPath(path)) >= 1

\* C20: every enumerated path is realizable: every rule named in a path of the
\* dictionary has a variant count of at least 1.
C20_EveryPathIsRealizable ==
    (Acyclic /\ Collected) =>
        \A path \in paths : \A k \in DOMAIN IdsOnPath(path) :
            rules[RuleWithId(IdsOnPath(path)[k])].total_generable_variants >= 1

\* ------------------------------------------------------------------ a chain of three
\* Grammars of three symbols in a chain: a top-level symbol A with one rule of one
\* to MaxBody + 1 tokens over "t", [[B]] and [[C]], a symbol B with at most MaxRules
\* rules of MaxBody tokens over "t" and [[C]], and a symbol C, untagged or tagged
\* m:a, with at most one rule of MaxBody tokens "t".
ChainTopRuleLists ==
    [1..1 -> [expansion : UNION {[1..l -> {Lit, Ref("B"), Ref("C")}] : l \in 1..(MaxBody + 1)},
              app_rate : AppRates]]

ChainMidRuleLists ==
    UNION {[1..k -> [expansion : UNION {[1..l -> {Lit, Ref("C")}] : l \in 1..MaxBody},
                     app_rate : AppRates]] : k \in 0..MaxRules}

ChainLowRuleLists ==
    UNION {[1..k -> [expansion : UNION {[1..l -> {Lit}] : l \in 1..MaxBody},
                     app_rate : AppRates]] : k \in 0..1}

ChainContents ==
    {<<a, b, c>> :
        a \in [name : {"A"}, deep : {TRUE}, markup : {{}}, rules : ChainTopRuleLists],
        b \in [name : {"B"}, deep : {FALSE}, markup : {{}, {"m:b"}}, rules : ChainMidRuleLists],
        c \in [name : {"C"}, deep : {FALSE}, markup : {{}, {"m:a"}}, rules : ChainLowRuleLists]}

InitChain ==
    /\ content \in ChainContents
    /\ declared = <<"A", "B", "C">>
    /\ verbosity \in Verbosities
    /\ Constructed

SpecChain == InitChain /\ [][Next]_vars

\* the tuples of child paths of rule p: the Cartesian product of the path sets of
\* the meaningful nonterminals in its body
TuplesOf(p) ==
    LET kept == MeaningfulSymbolsIn(rules[p].body)
    IN Product([j \in 1..Len(kept) |-> PathsFromSymbol(kept[j])])

\* C21: the path encoding is injective: for every meaningful rule, two different
\* tuples of child paths that each give a chain never give the same path string.
C21_PathEncodingIsInjective ==
    (Acyclic /\ PassDone) =>
        \A p \in DOMAIN rules :
            IsTrue(rules[p].semantically_meaningful) =>
                \A t, u \in TuplesOf(p) :
                    (t # u /\ DropEmpty(t) # <<>> /\ DropEmpty(u) # <<>>) =>
                        PartialRuleChain(rules[p].id, DropEmpty(t))
                            # PartialRuleChain(rules[p].id, DropEmpty(u))
====
